---- MODULE Spec2Model ----
(***************************************************************************)
(* The CMake job runner of cmaketools: the controller of                   *)
(* cmaketools/cmakecontrol.py (start, stop, enqueue, wait, runsync and the *)
(* ledger accessors) and the worker process it spawns, the __main__ block   *)
(* of cmaketools/cmakerunner.py, joined by the worker's stdin/stdout pipes. *)
(* Controller calls and worker steps interleave freely.                    *)
(***************************************************************************)
EXTENDS Integers, Sequences, FiniteSets, TLC

\* Bound: number of user jobs enqueued within one worker lifetime.
MaxJobs == 3

_CMAKE_FIRST_USER_JOB_ == 2

\* Python values: None is the empty tuple, an int v is Val(v) = <<v>>.
None == <<>>
Val(v) == <<v>>

VARIABLES
    _cmake_proc_,            \* TRUE when the controller holds a Popen handle
    _cmake_jobs_status_,     \* the ledger: None or Val(status) per slot
    _cmake_jobs_completed_,  \* completed count
    frame,                   \* the controller's position inside a blocking call
    last,                    \* outcome of the last controller call that ended
    issued,                  \* ids returned by enqueue since the last spawn
    sent,                    \* command lines enqueue wrote since the last spawn
    wpc,                     \* worker position
    returncode,              \* worker process exit code once wpc = "exited"
    argv,                    \* worker command line options, until parsed
    kill_on_err,             \* args.kill_on_err once parsed
    stdin,                   \* command lines written and not yet read
    stdin_closed,            \* the controller closed the worker's stdin
    stdout,                  \* status lines written and not yet read
    next_args,               \* the command the worker is executing
    sigterm,                 \* terminate() was sent and not yet delivered
    executed,                \* exit codes of the user jobs the worker ran
    fatal                    \* "", "parse" or "setup": the stage that failed

ctl_vars == <<_cmake_proc_, _cmake_jobs_status_, _cmake_jobs_completed_, frame, last, issued, sent>>
wrk_vars == <<wpc, returncode, argv, kill_on_err, stdin, stdin_closed, stdout,
              next_args, sigterm, executed, fatal>>
vars == <<_cmake_proc_, _cmake_jobs_status_, _cmake_jobs_completed_, frame, last, issued, sent,
          wpc, returncode, argv, kill_on_err, stdin, stdin_closed, stdout,
          next_args, sigterm, executed, fatal>>

-----------------------------------------------------------------------------
(* Line protocol: f"{rc}\n" on the worker side, int(rc.strip()) on the      *)
(* controller side.  A line is a sequence of one-character strings.         *)

DigitChars == <<"0", "1", "2", "3", "4", "5", "6", "7", "8", "9">>

RECURSIVE NatStr(_)
NatStr(n) ==
    IF n < 10 THEN <<DigitChars[n + 1]>>
    ELSE NatStr(n \div 10) \o <<DigitChars[(n % 10) + 1]>>

\* str(rc) as formatted by the f-string
IntStr(n) == IF n < 0 THEN <<"-">> \o NatStr(-n) ELSE NatStr(n)

\* f"{rc}\n"
StatusLine(rc) == IntStr(rc) \o <<"\n">>

IsSpace(c) == c \in {"\n", " ", "\t", "\r"}

RECURSIVE LStrip(_)
LStrip(s) == IF s # <<>> /\ IsSpace(Head(s)) THEN LStrip(Tail(s)) ELSE s

RECURSIVE RStrip(_)
RStrip(s) ==
    IF s # <<>> /\ IsSpace(s[Len(s)]) THEN RStrip(SubSeq(s, 1, Len(s) - 1)) ELSE s

\* str.strip()
Strip(s) == RStrip(LStrip(s))

IsDigit(c) == \E d \in 1..10 : DigitChars[d] = c

DigitVal(c) == (CHOOSE d \in 1..10 : DigitChars[d] = c) - 1

RECURSIVE NatOf(_)
NatOf(s) ==
    IF Len(s) = 1 THEN DigitVal(s[1])
    ELSE 10 * NatOf(SubSeq(s, 1, Len(s) - 1)) + DigitVal(s[Len(s)])

\* int(s) succeeds: an optional sign and at least one digit
IsIntLiteral(s) ==
    LET body == IF s # <<>> /\ Head(s) \in {"-", "+"} THEN Tail(s) ELSE s
    IN body # <<>> /\ \A k \in 1..Len(body) : IsDigit(body[k])

\* int(s), for an s with IsIntLiteral(s)
IntOf(s) ==
    IF Head(s) = "-" THEN 0 - NatOf(Tail(s))
    ELSE IF Head(s) = "+" THEN NatOf(Tail(s))
    ELSE NatOf(s)

-----------------------------------------------------------------------------
(* Inputs.                                                                  *)

\* arg_str values callers enqueue, as sequences of text pieces
Commands == { <<"--version">>, <<"--bogus-flag">>, <<"--version", "\n">> }

\* exit code of `cmake <next_args>` as run by the worker
CMakeExitCode(args) == IF args = <<"--version">> THEN 0 ELSE 1

NoPlatform == "None"
Platforms == { NoPlatform, "x64", "bogus" }

PlatformChoices == { "Win32", "x64", "ARM", "ARM64" }
LogLevelChoices == { "CRITICAL", "ERROR", "WARNING", "INFO", "DEBUG", "NOTSET" }

\* the user ids wait may be called with; None stands for the omitted id
WaitIds == { None } \cup { Val(k) : k \in -3 .. MaxJobs }

-----------------------------------------------------------------------------
(* Outcomes of controller calls.                                            *)

Ret(op, id, v) == [op |-> op, id |-> id, kind |-> "ret", val |-> v, exc |-> ""]
Raise(op, id, e) == [op |-> op, id |-> id, kind |-> "raise", val |-> None, exc |-> e]

\* the controller is between calls
Idle == [pc |-> "idle", op |-> "", arg |-> None, id |-> 0, i |-> 0, opts |-> <<>>]

\* Python list indexing st[idx], negative indices counting from the end
PyInRange(st, idx) == idx < Len(st) /\ idx >= 0 - Len(st)
PyGet(st, idx) == IF idx >= 0 THEN st[idx + 1] ELSE st[Len(st) + idx + 1]

-----------------------------------------------------------------------------
(* The controller, cmaketools/cmakecontrol.py.                              *)

\* Popen.poll(): None while the process lives, then its exit code
poll == IF wpc = "exited" THEN Val(returncode) ELSE None

\* Python truth of a poll() result: None and 0 are false
Truthy(v) == v # None /\ v # Val(0)

\* a handle exists, whether or not its process has ended
is_running_handle_only == _cmake_proc_

is_running == _cmake_proc_ /\ poll = None

get_last_job ==
    IF _cmake_jobs_completed_ > 0
    THEN Val(_cmake_jobs_completed_ - _CMAKE_FIRST_USER_JOB_)
    ELSE None

\* the statuses the generator of get_failed_job accepts
IsFailedStatus(st) == st # None /\ st[1] > 0

\* the indices of range(_cmake_jobs_completed_) that lie in the ledger and hold a
\* status the generator accepts
FailedIds ==
    { id \in 0 .. _cmake_jobs_completed_ - 1 :
        id < Len(_cmake_jobs_status_) /\ IsFailedStatus(PyGet(_cmake_jobs_status_, id)) }

\* the generator runs past the end of the ledger before it yields: IndexError
get_failed_job_raises ==
    FailedIds = {} /\ _cmake_jobs_completed_ > Len(_cmake_jobs_status_)

\* the value get_failed_job() returns when it returns
get_failed_job ==
    IF FailedIds = {} THEN None
    ELSE Val((CHOOSE id \in FailedIds : \A o \in FailedIds : id <= o)
             - _CMAKE_FIRST_USER_JOB_)

\* manage_cmake.waitfor(job), given the outcome w of its call cmakecontroller.wait(job):
\* get_failed_job() if wait returned a true value, else None
waitfor(w) ==
    IF w.kind = "raise" THEN Raise("waitfor", w.id, w.exc)
    ELSE IF ~Truthy(w.val) THEN Ret("waitfor", w.id, None)
    ELSE IF get_failed_job_raises THEN Raise("waitfor", w.id, "IndexError")
    ELSE Ret("waitfor", w.id, get_failed_job)

get_current_job ==
    IF _cmake_jobs_completed_ < Len(_cmake_jobs_status_)
    THEN Val(_cmake_jobs_completed_ - _CMAKE_FIRST_USER_JOB_)
    ELSE None

is_idle == get_current_job = None

Max0(n) == IF n > 0 THEN n ELSE 0

\* the counts without the offset of the two system slots
get_number_of_jobs_raw(type) ==
    LET nall == Len(_cmake_jobs_status_)
        n == CASE type = "all" -> nall
               [] type = "completed" -> _cmake_jobs_completed_
               [] type = "remaining" -> nall - _cmake_jobs_completed_
    IN Max0(n)

get_number_of_jobs(type) ==
    LET nall == Len(_cmake_jobs_status_)
        n == CASE type = "all" -> nall
               [] type = "completed" -> _cmake_jobs_completed_
               [] type = "remaining" -> nall - _cmake_jobs_completed_
    IN Max0(n - _CMAKE_FIRST_USER_JOB_)

\* get_job_status(id): the outcome record of the call (id None reads the last slot)
get_job_status(id) ==
    LET idx == IF id # None THEN id[1] + _CMAKE_FIRST_USER_JOB_ ELSE -1
    IN IF PyInRange(_cmake_jobs_status_, idx)
       THEN Ret("get_job_status", id, PyGet(_cmake_jobs_status_, idx))
       ELSE Raise("get_job_status", id, "ValueError")

\* the line enqueue writes for arg_str
CommandLine(arg_str) ==
    IF arg_str # <<>> /\ arg_str[Len(arg_str)] = "\n" THEN arg_str ELSE arg_str \o <<"\n">>

\* enqueue returning the raw ledger index, without the user-job offset
enqueue_id_raw(n) == n

\* the id enqueue returns for a ledger of length n
enqueue_id(n) == n - _CMAKE_FIRST_USER_JOB_

\* Popen(...) with the old ledger kept: the two reserved slots are appended to it
Spawn_keep_ledger(opts) ==
    /\ _cmake_proc_' = TRUE
    /\ _cmake_jobs_status_' = _cmake_jobs_status_ \o <<None, None>>
    /\ _cmake_jobs_completed_' = _cmake_jobs_completed_
    /\ issued' = <<>>
    /\ sent' = <<>>
    /\ frame' = Idle
    /\ last' = Ret("start", IF _cmake_proc_ THEN Val(TRUE) ELSE None, None)
    /\ wpc' = "parse"
    /\ returncode' = 0
    /\ argv' = opts
    /\ kill_on_err' = FALSE
    /\ stdin' = <<>>
    /\ stdin_closed' = FALSE
    /\ stdout' = <<>>
    /\ next_args' = <<>>
    /\ sigterm' = FALSE
    /\ executed' = <<>>
    /\ fatal' = ""

\* Popen(...), clear_job_status() and the two reserved slots; the outcome of start
\* carries Val(TRUE) when restart=True replaced an existing handle
Spawn(opts) ==
    /\ _cmake_proc_' = TRUE
    /\ _cmake_jobs_status_' = <<None, None>>
    /\ _cmake_jobs_completed_' = 0
    /\ issued' = <<>>
    /\ sent' = <<>>
    /\ frame' = Idle
    /\ last' = Ret("start", IF _cmake_proc_ THEN Val(TRUE) ELSE None, None)
    /\ wpc' = "parse"
    /\ returncode' = 0
    /\ argv' = opts
    /\ kill_on_err' = FALSE
    /\ stdin' = <<>>
    /\ stdin_closed' = FALSE
    /\ stdout' = <<>>
    /\ next_args' = <<>>
    /\ sigterm' = FALSE
    /\ executed' = <<>>
    /\ fatal' = ""

\* the worker command line without the kill-on-error switch
StartOpts_no_kill(platform, msvc_only_if_no_cl, loglevel) ==
    (IF platform # NoPlatform THEN <<"--platform", platform>> ELSE <<>>)
    \o (IF msvc_only_if_no_cl THEN <<"--msvc-only-if-no-cl">> ELSE <<>>)
    \o <<"--log-level", loglevel>>

\* the worker command line start() builds
StartOpts(platform, msvc_only_if_no_cl, loglevel) ==
    <<"--kill-on-error">>
    \o (IF platform # NoPlatform THEN <<"--platform", platform>> ELSE <<>>)
    \o (IF msvc_only_if_no_cl THEN <<"--msvc-only-if-no-cl">> ELSE <<>>)
    \o <<"--log-level", loglevel>>

\* the handle and the pipes are dropped: no worker is attached any more
Detach ==
    /\ _cmake_proc_' = FALSE
    /\ wpc' = "none"
    /\ returncode' = 0
    /\ argv' = <<>>
    /\ kill_on_err' = FALSE
    /\ stdin' = <<>>
    /\ stdin_closed' = FALSE
    /\ stdout' = <<>>
    /\ next_args' = <<>>
    /\ sigterm' = FALSE
    /\ executed' = <<>>
    /\ fatal' = ""

\* the end of stop(): the handle is discarded; start(restart=True) goes on to spawn
StopEnd(op, opts) ==
    IF op = "start" THEN Spawn(opts)
    ELSE /\ Detach
         /\ frame' = Idle
         /\ last' = Ret("stop", None, None)
         /\ UNCHANGED <<_cmake_jobs_status_, _cmake_jobs_completed_, issued, sent>>

\* stop() with no handle, clearing the ledger all the same
StopNoHandle_clears ==
    /\ frame' = Idle
    /\ last' = Ret("stop", Val(FALSE), None)
    /\ _cmake_jobs_status_' = <<>>
    /\ _cmake_jobs_completed_' = 0
    /\ UNCHANGED <<_cmake_proc_, issued, sent>>
    /\ UNCHANGED wrk_vars

\* stop() with no handle: the body of `if _cmake_proc_:` is skipped; the outcome
\* carries Val(FALSE) to tell it from a stop that found a handle
StopNoHandle ==
    /\ frame' = Idle
    /\ last' = Ret("stop", Val(FALSE), None)
    /\ UNCHANGED <<_cmake_proc_, _cmake_jobs_status_, _cmake_jobs_completed_, issued, sent>>
    /\ UNCHANGED wrk_vars

\* the body of stop() up to its first blocking call, run for `op` (stop, or start
\* with restart=True, which then spawns a worker with `opts`)
StopBody(op, opts) ==
    IF ~_cmake_proc_ THEN StopNoHandle
    ELSE IF ~Truthy(poll) THEN
        IF get_current_job = None \/ get_current_job[1] < _CMAKE_FIRST_USER_JOB_ THEN
            \* enqueue("--quit")
            IF ~is_running THEN
                /\ frame' = Idle
                /\ last' = Raise(op, None, "RuntimeError")
                /\ UNCHANGED <<_cmake_proc_, _cmake_jobs_status_, _cmake_jobs_completed_, issued, sent>>
                /\ UNCHANGED wrk_vars
            ELSE
                /\ stdin' = Append(stdin, CommandLine(<<"--quit">>))
                /\ _cmake_jobs_status_' = Append(_cmake_jobs_status_, None)
                /\ frame' = [Idle EXCEPT !.pc = "stop_join", !.op = op, !.opts = opts]
                /\ UNCHANGED <<_cmake_proc_, _cmake_jobs_completed_, last, issued, sent>>
                /\ UNCHANGED <<wpc, returncode, argv, kill_on_err, stdin_closed, stdout,
                               next_args, sigterm, executed, fatal>>
        ELSE
            \* stdin.close(); terminate(); then wait(timeout)
            /\ stdin_closed' = TRUE
            /\ sigterm' = (wpc # "exited")
            /\ frame' = [Idle EXCEPT !.pc = "stop_term", !.op = op, !.opts = opts]
            /\ UNCHANGED <<_cmake_proc_, _cmake_jobs_status_, _cmake_jobs_completed_, last, issued, sent>>
            /\ UNCHANGED <<wpc, returncode, argv, kill_on_err, stdin, stdout,
                           next_args, executed, fatal>>
    ELSE StopEnd(op, opts)

start(restart, platform, msvc_only_if_no_cl) ==
    /\ frame.pc = "idle"
    /\ LET opts == StartOpts(platform, msvc_only_if_no_cl, "INFO") IN
       IF _cmake_proc_ THEN
           IF restart THEN StopBody("start", opts)
           ELSE /\ last' = Raise("start", None, "RuntimeError")
                /\ UNCHANGED <<_cmake_proc_, _cmake_jobs_status_, _cmake_jobs_completed_,
                               frame, issued, sent>>
                /\ UNCHANGED wrk_vars
       ELSE Spawn(opts)

stop ==
    /\ frame.pc = "idle"
    /\ StopBody("stop", <<>>)

\* _cmake_proc_.wait(timeout) returned: the worker has exited
stop_terminated ==
    /\ frame.pc = "stop_term"
    /\ wpc = "exited"
    /\ StopEnd(frame.op, frame.opts)

\* TimeoutExpired: kill() ends the worker; stop goes on to _cmake_proc_.wait()
stop_kill ==
    /\ frame.pc = "stop_term"
    /\ wpc # "exited"
    /\ wpc' = "exited"
    /\ returncode' = -9
    /\ sigterm' = FALSE
    /\ frame' = [frame EXCEPT !.pc = "stop_join"]
    /\ UNCHANGED <<_cmake_proc_, _cmake_jobs_status_, _cmake_jobs_completed_, last, issued, sent>>
    /\ UNCHANGED <<argv, kill_on_err, stdin, stdin_closed, stdout, next_args,
                   executed, fatal>>

\* the final wait() returning at once, the exit of the worker not awaited
stop_join_nowait ==
    /\ frame.pc = "stop_join"
    /\ StopEnd(frame.op, frame.opts)

\* the final _cmake_proc_.wait(), after enqueue("--quit") or kill()
stop_join ==
    /\ frame.pc = "stop_join"
    /\ wpc = "exited"
    /\ StopEnd(frame.op, frame.opts)

\* enqueue that also takes a waiting status line off the stream and counts it
enqueue_drains(arg_str) ==
    /\ frame.pc = "idle"
    /\ Len(issued) < MaxJobs
    /\ IF ~is_running THEN
           /\ last' = Raise("enqueue", None, "RuntimeError")
           /\ UNCHANGED <<_cmake_proc_, _cmake_jobs_status_, _cmake_jobs_completed_,
                          frame, issued, sent>>
           /\ UNCHANGED wrk_vars
       ELSE
           LET id == Len(_cmake_jobs_status_) IN
           /\ stdin' = Append(stdin, CommandLine(arg_str))
           /\ _cmake_jobs_status_' = Append(_cmake_jobs_status_, None)
           /\ issued' = Append(issued, enqueue_id(id))
           /\ sent' = Append(sent, CommandLine(arg_str))
           /\ last' = Ret("enqueue", None, Val(enqueue_id(id)))
           /\ stdout' = IF stdout # <<>> THEN Tail(stdout) ELSE stdout
           /\ _cmake_jobs_completed_' =
                 IF stdout # <<>> THEN _cmake_jobs_completed_ + 1 ELSE _cmake_jobs_completed_
           /\ UNCHANGED <<_cmake_proc_, frame>>
           /\ UNCHANGED <<wpc, returncode, argv, kill_on_err, stdin_closed,
                          next_args, sigterm, executed, fatal>>


\* enqueue(arg_str)
enqueue(arg_str) ==
    /\ frame.pc = "idle"
    /\ Len(issued) < MaxJobs
    /\ IF ~is_running THEN
           /\ last' = Raise("enqueue", None, "RuntimeError")
           /\ UNCHANGED <<_cmake_proc_, _cmake_jobs_status_, _cmake_jobs_completed_,
                          frame, issued, sent>>
           /\ UNCHANGED wrk_vars
       ELSE
           LET id == Len(_cmake_jobs_status_) IN
           /\ stdin' = Append(stdin, CommandLine(arg_str))
           /\ _cmake_jobs_status_' = Append(_cmake_jobs_status_, None)
           /\ issued' = Append(issued, enqueue_id(id))
           /\ sent' = Append(sent, CommandLine(arg_str))
           /\ last' = Ret("enqueue", None, Val(enqueue_id(id)))
           /\ UNCHANGED <<_cmake_proc_, _cmake_jobs_completed_, frame>>
           /\ UNCHANGED <<wpc, returncode, argv, kill_on_err, stdin_closed, stdout,
                          next_args, sigterm, executed, fatal>>

\* wait(id) up to its first readline() without the test on the completed count:
\* it returns at once only when the worker is not running
WaitEnter_no_shortcut(op, arg, status) ==
    IF arg = None THEN
        /\ last' = Raise(op, arg, "TypeError")
        /\ frame' = Idle
    ELSE
        LET id == arg[1] + _CMAKE_FIRST_USER_JOB_ IN
        IF id < 0 /\ id >= Len(status) THEN
            /\ last' = Raise(op, arg, "ValueError")
            /\ frame' = Idle
        ELSE IF ~is_running THEN
            /\ last' = IF PyInRange(status, id) THEN Ret(op, arg, PyGet(status, id))
                        ELSE Raise(op, arg, "IndexError")
            /\ frame' = Idle
        ELSE
            /\ frame' = [Idle EXCEPT !.pc = "wait_read", !.op = op, !.arg = arg,
                                      !.id = id, !.i = _cmake_jobs_completed_]
            /\ last' = last

\* wait(id) up to its first readline(), called as `op` with the ledger `status`:
\* the id check, the already-completed return, or the entry into the read loop
WaitEnter(op, arg, status) ==
    IF arg = None THEN
        \* id is the list [len - 1]: comparing or indexing with it is a TypeError
        /\ last' = Raise(op, arg, "TypeError")
        /\ frame' = Idle
    ELSE
        LET id == arg[1] + _CMAKE_FIRST_USER_JOB_ IN
        IF id < 0 /\ id >= Len(status) THEN
            /\ last' = Raise(op, arg, "ValueError")
            /\ frame' = Idle
        ELSE IF ~is_running \/ id < _cmake_jobs_completed_ THEN
            /\ last' = IF PyInRange(status, id) THEN Ret(op, arg, PyGet(status, id))
                        ELSE Raise(op, arg, "IndexError")
            /\ frame' = Idle
        ELSE
            /\ frame' = [Idle EXCEPT !.pc = "wait_read", !.op = op, !.arg = arg,
                                      !.id = id, !.i = _cmake_jobs_completed_]
            /\ last' = last

wait(arg) ==
    /\ frame.pc = "idle"
    /\ WaitEnter("wait", arg, _cmake_jobs_status_)
    /\ UNCHANGED <<_cmake_proc_, _cmake_jobs_status_, _cmake_jobs_completed_, issued, sent>>
    /\ UNCHANGED wrk_vars

\* the status stored one slot too far
store_status_next(status, i, v) ==
    IF i + 2 <= Len(status) THEN [status EXCEPT ![i + 2] = Val(v)] ELSE status

\* the status stored in the last slot of the ledger, whichever line was read
store_status_last(status, i, v) == [status EXCEPT ![Len(status)] = Val(v)]

\* _cmake_jobs_status_[i] = v
store_status(status, i, v) == [status EXCEPT ![i + 1] = Val(v)]

\* one iteration of the read loop of wait: readline() returned a line, or "" at
\* end of stream once the worker has exited
wait_readline ==
    /\ frame.pc = "wait_read"
    /\ stdout # <<>> \/ wpc = "exited"
    /\ LET rc == IF stdout # <<>> THEN Head(stdout) ELSE <<>>
           i == frame.i
       IN
       /\ stdout' = IF stdout # <<>> THEN Tail(stdout) ELSE stdout
       /\ _cmake_jobs_completed_' = _cmake_jobs_completed_ + 1
       /\ IF ~IsIntLiteral(Strip(rc)) THEN
              /\ last' = Raise(frame.op, frame.arg, "ValueError")
              /\ frame' = Idle
              /\ UNCHANGED _cmake_jobs_status_
          ELSE IF i >= Len(_cmake_jobs_status_) THEN
              /\ last' = Raise(frame.op, frame.arg, "IndexError")
              /\ frame' = Idle
              /\ UNCHANGED _cmake_jobs_status_
          ELSE
              LET ret == IntOf(Strip(rc)) IN
              /\ _cmake_jobs_status_' = store_status(_cmake_jobs_status_, i, ret)
              /\ IF ret # 0 \/ i + 1 > frame.id THEN
                     /\ last' = Ret(frame.op, frame.arg, Val(ret))
                     /\ frame' = Idle
                 ELSE
                     /\ frame' = [frame EXCEPT !.i = i + 1]
                     /\ last' = last
    /\ UNCHANGED <<_cmake_proc_, issued, sent>>
    /\ UNCHANGED <<wpc, returncode, argv, kill_on_err, stdin, stdin_closed,
                   next_args, sigterm, executed, fatal>>

\* runsync(arg_str): enqueue, then wait on the id enqueue returned
runsync(arg_str) ==
    /\ frame.pc = "idle"
    /\ Len(issued) < MaxJobs
    /\ IF ~is_running THEN
           /\ last' = Raise("runsync", None, "RuntimeError")
           /\ UNCHANGED <<_cmake_proc_, _cmake_jobs_status_, _cmake_jobs_completed_,
                          frame, issued, sent>>
           /\ UNCHANGED wrk_vars
       ELSE
           LET id == Len(_cmake_jobs_status_) IN
           /\ stdin' = Append(stdin, CommandLine(arg_str))
           /\ _cmake_jobs_status_' = Append(_cmake_jobs_status_, None)
           /\ issued' = Append(issued, enqueue_id(id))
           /\ sent' = Append(sent, CommandLine(arg_str))
           /\ WaitEnter("runsync", Val(enqueue_id(id)), Append(_cmake_jobs_status_, None))
           /\ UNCHANGED <<_cmake_proc_, _cmake_jobs_completed_>>
           /\ UNCHANGED <<wpc, returncode, argv, kill_on_err, stdin_closed, stdout,
                          next_args, sigterm, executed, fatal>>

-----------------------------------------------------------------------------
(* The worker, the __main__ block of cmaketools/cmakerunner.py.             *)

\* parser.parse_args(): FALSE when the parser's error() raises
RECURSIVE parse_args(_)
parse_args(a) ==
    IF a = <<>> THEN TRUE
    ELSE IF Head(a) \in {"--kill-on-error", "--quiet", "-q"} THEN parse_args(Tail(a))
    ELSE IF Head(a) = "--platform" THEN
        Len(a) >= 2 /\ a[2] \in PlatformChoices /\ parse_args(Tail(Tail(a)))
    ELSE IF Head(a) = "--log-level" THEN
        Len(a) >= 2 /\ a[2] \in LogLevelChoices /\ parse_args(Tail(Tail(a)))
    ELSE IF Head(a) \in {"--cmake-path", "--git-submodule-status"} THEN
        Len(a) >= 2 /\ parse_args(Tail(Tail(a)))
    ELSE FALSE

\* args.kill_on_err of a command line that parses
KillOnErr(a) == \E k \in 1..Len(a) : a[k] = "--kill-on-error"

WorkerUnchangedCtl ==
    UNCHANGED <<_cmake_proc_, _cmake_jobs_status_, _cmake_jobs_completed_, frame, last, issued, sent>>

\* argument parsing whose exit() is caught by the outer handler, which reports
\* "-1" once more before the process ends
worker_parse_caught ==
    /\ wpc = "parse"
    /\ IF parse_args(argv) THEN
           /\ stdout' = Append(stdout, StatusLine(0))
           /\ kill_on_err' = KillOnErr(argv)
           /\ wpc' = "init"
           /\ fatal' = fatal
       ELSE
           /\ stdout' = stdout \o <<StatusLine(-1), StatusLine(-1)>>
           /\ kill_on_err' = kill_on_err
           /\ wpc' = "exited"
           /\ fatal' = "parse"
    /\ argv' = <<>>
    /\ UNCHANGED <<returncode, stdin, stdin_closed, next_args, sigterm, executed>>
    /\ WorkerUnchangedCtl

\* argument parsing: "0" and on to setup, or "-1" and exit()
worker_parse ==
    /\ wpc = "parse"
    /\ IF parse_args(argv) THEN
           /\ stdout' = Append(stdout, StatusLine(0))
           /\ kill_on_err' = KillOnErr(argv)
           /\ wpc' = "init"
           /\ fatal' = fatal
       ELSE
           /\ stdout' = Append(stdout, StatusLine(-1))
           /\ kill_on_err' = kill_on_err
           /\ wpc' = "exited"
           /\ fatal' = "parse"
    /\ argv' = <<>>
    /\ UNCHANGED <<returncode, stdin, stdin_closed, next_args, sigterm, executed>>
    /\ WorkerUnchangedCtl

\* environment setup (find_cmake, vcvarsall, submodules): "0" and Ready, or an
\* exception, which the handler reports as "-1" before the process ends
worker_init(ok) ==
    /\ wpc = "init"
    /\ IF ok THEN
           /\ stdout' = Append(stdout, StatusLine(0))
           /\ wpc' = "ready"
           /\ fatal' = fatal
       ELSE
           /\ stdout' = Append(stdout, StatusLine(-1))
           /\ wpc' = "terminating"
           /\ fatal' = "setup"
    /\ UNCHANGED <<returncode, argv, kill_on_err, stdin, stdin_closed, next_args,
                   sigterm, executed>>
    /\ WorkerUnchangedCtl

\* line.rstrip("\n")
RStripNewline(s) ==
    IF s # <<>> /\ s[Len(s)] = "\n" THEN SubSeq(s, 1, Len(s) - 1) ELSE s

\* sys.stdin.readline() in the Ready state with the quit line taken for a command:
\* only end of input ends the loop
worker_readline_runs_quit ==
    /\ wpc = "ready"
    /\ stdin # <<>> \/ stdin_closed
    /\ IF stdin = <<>> THEN
           /\ wpc' = "terminating"
           /\ next_args' = next_args
       ELSE
           /\ wpc' = "exec"
           /\ next_args' = RStripNewline(Head(stdin))
    /\ stdin' = IF stdin = <<>> THEN stdin ELSE Tail(stdin)
    /\ UNCHANGED <<returncode, argv, kill_on_err, stdin_closed, stdout, sigterm,
                   executed, fatal>>
    /\ WorkerUnchangedCtl

\* sys.stdin.readline() in the Ready state: a command, the quit line or end of input
worker_readline ==
    /\ wpc = "ready"
    /\ stdin # <<>> \/ stdin_closed
    /\ IF stdin = <<>> \/ Head(stdin) = <<"--quit", "\n">> THEN
           /\ wpc' = "terminating"
           /\ next_args' = next_args
       ELSE
           /\ wpc' = "exec"
           /\ next_args' = RStripNewline(Head(stdin))
    /\ stdin' = IF stdin = <<>> THEN stdin ELSE Tail(stdin)
    /\ UNCHANGED <<returncode, argv, kill_on_err, stdin_closed, stdout, sigterm,
                   executed, fatal>>
    /\ WorkerUnchangedCtl

\* sp.run(...) with the build tool's stdout left on the status pipe: a line of
\* its output precedes the status line
worker_run_inherit_stdout ==
    /\ wpc = "exec"
    /\ LET rc == CMakeExitCode(next_args) IN
       /\ stdout' = stdout \o << <<"c", "m", "a", "k", "e", "\n">>, StatusLine(rc) >>
       /\ executed' = Append(executed, rc)
       /\ wpc' = IF kill_on_err /\ rc # 0 THEN "terminating" ELSE "ready"
    /\ next_args' = <<>>
    /\ UNCHANGED <<returncode, argv, kill_on_err, stdin, stdin_closed, sigterm, fatal>>
    /\ WorkerUnchangedCtl

\* sp.run(...) finished: the status line is written and flushed
worker_run ==
    /\ wpc = "exec"
    /\ LET rc == CMakeExitCode(next_args) IN
       /\ stdout' = Append(stdout, StatusLine(rc))
       /\ executed' = Append(executed, rc)
       /\ wpc' = IF kill_on_err /\ rc # 0 THEN "terminating" ELSE "ready"
    /\ next_args' = <<>>
    /\ UNCHANGED <<returncode, argv, kill_on_err, stdin, stdin_closed, sigterm, fatal>>
    /\ WorkerUnchangedCtl

\* the process ends by itself, with exit code 0
worker_exit ==
    /\ wpc = "terminating"
    /\ wpc' = "exited"
    /\ returncode' = 0
    /\ UNCHANGED <<argv, kill_on_err, stdin, stdin_closed, stdout, next_args, sigterm,
                   executed, fatal>>
    /\ WorkerUnchangedCtl

\* SIGTERM from terminate() ends the process wherever it is
worker_sigterm ==
    /\ sigterm
    /\ wpc \in {"parse", "init", "ready", "exec", "terminating"}
    /\ wpc' = "exited"
    /\ returncode' = -15
    /\ sigterm' = FALSE
    /\ UNCHANGED <<argv, kill_on_err, stdin, stdin_closed, stdout, next_args,
                   executed, fatal>>
    /\ WorkerUnchangedCtl

-----------------------------------------------------------------------------

Init ==
    /\ _cmake_proc_ = FALSE
    /\ _cmake_jobs_status_ = <<>>
    /\ _cmake_jobs_completed_ = 0
    /\ frame = Idle
    /\ last = Ret("", None, None)
    /\ issued = <<>>
    /\ sent = <<>>
    /\ wpc = "none"
    /\ returncode = 0
    /\ argv = <<>>
    /\ kill_on_err = FALSE
    /\ stdin = <<>>
    /\ stdin_closed = FALSE
    /\ stdout = <<>>
    /\ next_args = <<>>
    /\ sigterm = FALSE
    /\ executed = <<>>
    /\ fatal = ""

Next ==
    \/ \E restart \in BOOLEAN, platform \in Platforms, msvc \in BOOLEAN :
          start(restart, platform, msvc)
    \/ stop
    \/ stop_terminated
    \/ stop_kill
    \/ stop_join
    \/ \E arg_str \in Commands : enqueue(arg_str)
    \/ \E arg \in WaitIds : wait(arg)
    \/ wait_readline
    \/ \E arg_str \in Commands : runsync(arg_str)
    \/ worker_parse
    \/ \E ok \in BOOLEAN : worker_init(ok)
    \/ worker_readline
    \/ worker_run
    \/ worker_exit
    \/ worker_sigterm

Spec == Init /\ [][Next]_vars

-----------------------------------------------------------------------------
(* Properties.                                                              *)

\* the controller is between calls and its last call was wait with an explicit id
\* that denotes an existing ledger slot
WaitedOnSlot ==
    /\ frame.pc = "idle"
    /\ last.op = "wait"
    /\ last.id # None
    /\ last.id[1] + _CMAKE_FIRST_USER_JOB_ \in 0 .. Len(_cmake_jobs_status_) - 1

\* the ledger slot (1-based position) of the id the last call was made with
LastSlot == last.id[1] + _CMAKE_FIRST_USER_JOB_ + 1

\* C1: after start and at least one enqueue, wait() with the id omitted returns
\* the status of the last-submitted job and does not fail with an error.
C1_WaitOmittedIdReturnsLastStatus ==
    (/\ frame.pc = "idle"
     /\ last.op = "wait"
     /\ last.id = None
     /\ _cmake_proc_
     /\ issued # <<>>)
    => /\ last.kind = "ret"
       /\ last.val = get_job_status(Val(issued[Len(issued)])).val

\* C2: within one worker lifetime the ids returned by successive successful
\* enqueue calls are 0, 1, 2, ... in call order, whatever waits are interleaved,
\* and the value an enqueue returns is the next of them (never a system slot).
C2_EnqueueIdsDense ==
    /\ \A k \in 1 .. Len(issued) : issued[k] = k - 1
    /\ (frame.pc = "idle" /\ last.op = "enqueue" /\ last.kind = "ret")
       => last.val = Val(Len(issued) - 1)

\* C2 witness: an enqueue returned the third id after a wait had resolved user jobs
C2_Witness ==
    /\ last.op = "enqueue"
    /\ last.kind = "ret"
    /\ Len(issued) = 3
    /\ _cmake_jobs_completed_ >= 3

\* C3: with kill-on-error, if user job k is the first to fail, then once wait has
\* returned for a submitted id at or after k, jobs 0..k hold their exit codes in
\* the ledger and every later job is pending.
C3_KillOnErrorLedger ==
    \A k \in 0 .. Len(executed) - 1 :
        (/\ WaitedOnSlot
         /\ last.kind = "ret"
         /\ kill_on_err
         /\ executed[k + 1] # 0
         /\ \A j \in 0 .. k - 1 : executed[j + 1] = 0
         /\ last.id[1] >= k)
        => /\ \A j \in 0 .. k :
                 _cmake_jobs_status_[j + _CMAKE_FIRST_USER_JOB_ + 1] = Val(executed[j + 1])
           /\ \A j \in k + 1 .. Len(issued) - 1 :
                 _cmake_jobs_status_[j + _CMAKE_FIRST_USER_JOB_ + 1] = None

\* C4: when wait(id) has returned, no slot at or before the requested one is
\* pending while a status line is unread or the worker may still write one.
C4_WaitDrainsUpToId ==
    (WaitedOnSlot /\ last.kind = "ret")
    => \A s \in 1 .. LastSlot :
          _cmake_jobs_status_[s] = None
          => stdout = <<>> /\ wpc \in {"terminating", "exited", "none"}

\* a step in which a wait call ends
WaitEnds ==
    /\ (\E arg \in WaitIds : wait(arg)) \/ (frame.op = "wait" /\ wait_readline)
    /\ frame'.pc = "idle"

\* C5: wait is idempotent per id: a wait(id) on a submitted id that directly
\* follows a wait(id) that returned, returns the same value.
C5_WaitIdempotent ==
    [][ (/\ WaitEnds
         /\ last.op = "wait" /\ last.kind = "ret"
         /\ last.id # None /\ last.id[1] \in 0 .. Len(issued) - 1
         /\ last'.op = "wait" /\ last'.id = last.id)
        => (last'.kind = "ret" /\ last'.val = last.val) ]_vars

\* the last call was wait or runsync, it returned, and its id denotes a ledger slot
ReturnedForSlot ==
    /\ frame.pc = "idle"
    /\ last.op \in {"wait", "runsync"}
    /\ last.kind = "ret"
    /\ last.id # None
    /\ last.id[1] + _CMAKE_FIRST_USER_JOB_ \in 0 .. Len(_cmake_jobs_status_) - 1

\* C6 as stated: the value wait(id) or runsync returns is the status of the
\* requested slot, get_job_status(id).
C6_WaitReturnsRequestedStatus ==
    ReturnedForSlot => get_job_status(last.id) = Ret("get_job_status", last.id, last.val)

\* C6 amended: the value wait(id) or runsync returns is the status of the requested
\* slot, or else it is the nonzero status of an earlier slot, the one resolved
\* last, and the requested slot is still pending.
C6_WaitReturnsRequestedOrFailed ==
    ReturnedForSlot =>
        \/ _cmake_jobs_status_[LastSlot] = last.val
        \/ /\ last.val # None
           /\ last.val # Val(0)
           /\ _cmake_jobs_status_[LastSlot] = None
           /\ _cmake_jobs_completed_ \in 1 .. LastSlot - 1
           /\ _cmake_jobs_status_[_cmake_jobs_completed_] = last.val

\* C6 witness: wait on a later user job returned the nonzero status of the first
\* user job, read by that call, and the requested slot is still pending
C6_Witness ==
    /\ ReturnedForSlot
    /\ last.id[1] >= 1
    /\ last.val = Val(1)
    /\ _cmake_jobs_status_[LastSlot] = None
    /\ _cmake_jobs_status_[_CMAKE_FIRST_USER_JOB_ + 1] = Val(1)

\* C7: wait(id) on a submitted slot never raises, whenever the worker exits.
C7_WaitOnSubmittedNeverRaises ==
    (/\ last.op = "wait"
     /\ last.id # None
     /\ last.id[1] \in 0 .. Len(issued) - 1)
    => last.kind = "ret"

\* C8: get_failed_job() is the smallest id among the resolved slots whose status
\* is nonzero, and none exactly when every resolved slot has status 0.
C8_GetFailedJobSmallestNonzero ==
    LET nonzero == { s \in 1 .. Len(_cmake_jobs_status_) :
                       /\ _cmake_jobs_status_[s] # None
                       /\ _cmake_jobs_status_[s] # Val(0) }
    IN get_failed_job =
          IF nonzero = {} THEN None
          ELSE Val((CHOOSE s \in nonzero : \A o \in nonzero : s <= o)
                   - 1 - _CMAKE_FIRST_USER_JOB_)

\* the reserved slot (1-based position) of the stage that failed
FatalSlot == IF fatal = "parse" THEN 1 ELSE 2

\* C9: if the worker failed argument parsing or setup, then after a wait on a slot
\* at or after the failed stage, that reserved slot holds -1, wait returned a
\* nonzero value and no user job holds an integer status.
C9_FatalInitObservable ==
    (/\ WaitedOnSlot
     /\ _cmake_proc_
     /\ fatal # ""
     /\ LastSlot >= FatalSlot)
    => /\ _cmake_jobs_status_[FatalSlot] = Val(-1)
       /\ last.kind = "ret"
       /\ last.val # None /\ last.val # Val(0)
       /\ \A s \in _CMAKE_FIRST_USER_JOB_ + 1 .. Len(_cmake_jobs_status_) :
             _cmake_jobs_status_[s] = None

\* C10: stop() returns normally from every state with a worker handle, and then
\* the handle is discarded and is_running() is false.
C10_StopUnconditional ==
    last.op = "stop" => (last.kind = "ret" /\ ~_cmake_proc_ /\ ~is_running)

\* C11: stop() called while the worker is executing a user job, both system slots
\* being resolved in the ledger, goes to the terminate path (input closed,
\* terminate(), the wait bounded by timeout, then kill), whichever id the job has,
\* so it never waits for the running or the queued jobs.
C11_StopMidJobTerminates ==
    [][ (/\ stop
         /\ is_running
         /\ wpc = "exec"
         /\ _cmake_jobs_completed_ >= _CMAKE_FIRST_USER_JOB_)
        => frame'.pc = "stop_term" ]_vars

\* C12: stop() on a live worker sends the quit line exactly when the current
\* unresolved slot is one of the two system slots; otherwise (a user job is
\* current or no slot is pending) it closes the input and terminates.
C12_StopPathBySlotKind ==
    [][ (stop /\ is_running)
        => /\ frame'.pc \in {"stop_join", "stop_term"}
           /\ (frame'.pc = "stop_join")
              <=> (_cmake_jobs_completed_ < _CMAKE_FIRST_USER_JOB_) ]_vars

\* C13: after stop() has returned, the ledger is empty and the completed count is 0.
C13_StopClearsLedger ==
    (frame.pc = "idle" /\ last.op = "stop" /\ last.kind = "ret")
    => (_cmake_jobs_status_ = <<>> /\ _cmake_jobs_completed_ = 0)

\* start has returned normally and the controller is between calls
StartReturned ==
    /\ frame.pc = "idle"
    /\ last.op = "start"
    /\ last.kind = "ret"

\* C14: when start has returned, whether it found no handle (first start, or start
\* after stop) or replaced one (restart=True), the ledger is exactly two pending
\* slots, the completed count is 0, get_number_of_jobs('all') is 0, and an enqueue
\* made next returns id 0.
C14_StartResetsLedger ==
    /\ [](StartReturned
          => /\ _cmake_jobs_status_ = <<None, None>>
             /\ _cmake_jobs_completed_ = 0
             /\ get_number_of_jobs("all") = 0)
    /\ [][ (/\ StartReturned
            /\ \E arg_str \in Commands : enqueue(arg_str)
            /\ last'.kind = "ret")
           => last'.val = Val(0) ]_vars

\* C14 witness: start(restart=True) has stopped the worker of an earlier lifetime,
\* replaced its handle and returned
C14_Witness ==
    /\ StartReturned
    /\ last.id = Val(TRUE)
    /\ _cmake_proc_
    /\ Len(_cmake_jobs_status_) = _CMAKE_FIRST_USER_JOB_

\* C15: stop() with no worker handle returns normally and changes neither the
\* handle, nor the ledger, nor the completed count, nor anything of a worker.
C15_StopNoHandleNoOp ==
    [][ (stop /\ ~_cmake_proc_)
        => /\ UNCHANGED <<_cmake_proc_, _cmake_jobs_status_, _cmake_jobs_completed_>>
           /\ UNCHANGED wrk_vars
           /\ frame' = Idle
           /\ last'.kind = "ret" ]_vars

\* C15 witness: a stop that found no handle has returned, the ledger of the stopped
\* lifetime still holding resolved slots
C15_Witness ==
    /\ last = Ret("stop", Val(FALSE), None)
    /\ ~_cmake_proc_
    /\ _cmake_jobs_completed_ > 0
    /\ Len(_cmake_jobs_status_) > _CMAKE_FIRST_USER_JOB_

\* C16: start() without restart raises exactly when is_running() is true, and then
\* leaves handle and ledger unchanged; when is_running() is false (no handle, or
\* the worker has exited on its own) it returns and a new worker is spawned.
C16_StartConflictIffRunning ==
    [][ (\E platform \in Platforms, msvc \in BOOLEAN : start(FALSE, platform, msvc))
        => IF is_running
           THEN /\ last'.kind = "raise"
                /\ UNCHANGED <<_cmake_proc_, _cmake_jobs_status_, _cmake_jobs_completed_>>
           ELSE /\ last'.kind = "ret"
                /\ _cmake_proc_'
                /\ wpc' = "parse" ]_vars

\* a step in which start ends by returning: a worker has been spawned
SpawnStep ==
    /\ \/ \E restart \in BOOLEAN, platform \in Platforms, msvc \in BOOLEAN :
             start(restart, platform, msvc)
       \/ stop_terminated
       \/ stop_kill
       \/ stop_join
    /\ frame'.pc = "idle"
    /\ last'.op = "start"
    /\ last'.kind = "ret"

\* a step in which the controller discards its handle
DetachStep == _cmake_proc_ /\ ~_cmake_proc_'

NoLiveWorker == ~_cmake_proc_ \/ wpc = "exited"

\* C18: enqueue called while no worker is live raises the not-running error, writes
\* to no stream, appends no ledger slot and leaves the completed count unchanged.
C18_EnqueueNotRunning ==
    [][ (NoLiveWorker /\ \E arg_str \in Commands : enqueue(arg_str))
        => /\ last' = Raise("enqueue", None, "RuntimeError")
           /\ UNCHANGED <<stdin, stdin_closed, stdout>>
           /\ UNCHANGED <<_cmake_proc_, _cmake_jobs_status_, _cmake_jobs_completed_>> ]_vars

\* C18 witness: enqueue raised while the handle was that of a worker that had
\* exited on its own, jobs of that lifetime being in the ledger
C18_Witness ==
    /\ last = Raise("enqueue", None, "RuntimeError")
    /\ frame.pc = "idle"
    /\ _cmake_proc_
    /\ wpc = "exited"
    /\ issued # <<>>

\* C19: the completed count never exceeds the ledger length, and every ledger slot
\* below the completed count holds an integer status.
C19_LedgerInvariant ==
    /\ _cmake_jobs_completed_ <= Len(_cmake_jobs_status_)
    /\ \A s \in 1 .. _cmake_jobs_completed_ : _cmake_jobs_status_[s] # None

\* C20: within one worker lifetime (any step but a spawn), a ledger slot that
\* holds an integer status keeps that status.
C20_StatusWrittenOnce ==
    [][ ~SpawnStep
        => \A s \in 1 .. Len(_cmake_jobs_status_) :
              _cmake_jobs_status_[s] # None
              => /\ Len(_cmake_jobs_status_') >= s
                 /\ _cmake_jobs_status_'[s] = _cmake_jobs_status_[s] ]_vars

\* C20 witness: stop has ended a lifetime and returned, after waits and enqueues,
\* and the status of the first user job is still in the ledger
C20_Witness ==
    /\ last = Ret("stop", None, None)
    /\ frame.pc = "idle"
    /\ Len(issued) >= 2
    /\ _cmake_jobs_completed_ > _CMAKE_FIRST_USER_JOB_
    /\ _cmake_jobs_status_[_CMAKE_FIRST_USER_JOB_ + 1] # None

\* exit code of the j-th command line the controller wrote (j from 1)
ExpectedCode(j) == CMakeExitCode(RStripNewline(sent[j]))

\* C21: every user job resolved with an integer holds the exit code of the command
\* enqueued for it; a slot resolves only when all slots before it are resolved and
\* none after it is; and each command the worker executes yields exactly one
\* status line, that of the next command in the order written.
C21_PositionalFifo ==
    /\ [](\A j \in 1 .. Len(sent) :
             (/\ j + _CMAKE_FIRST_USER_JOB_ <= Len(_cmake_jobs_status_)
              /\ _cmake_jobs_status_[j + _CMAKE_FIRST_USER_JOB_] # None)
             => _cmake_jobs_status_[j + _CMAKE_FIRST_USER_JOB_] = Val(ExpectedCode(j)))
    /\ [][ \A s \in 1 .. Len(_cmake_jobs_status_) :
              (/\ _cmake_jobs_status_[s] = None
               /\ s <= Len(_cmake_jobs_status_')
               /\ _cmake_jobs_status_'[s] # None)
              => /\ \A t \in 1 .. s - 1 : _cmake_jobs_status_[t] # None
                 /\ \A t \in s + 1 .. Len(_cmake_jobs_status_) :
                       _cmake_jobs_status_[t] = None ]_vars
    /\ [][ worker_run
           => /\ Len(executed) < Len(sent)
              /\ stdout' = Append(stdout, StatusLine(ExpectedCode(Len(executed) + 1))) ]_vars

\* C21 witness: two jobs with different exit codes are resolved, each with its own
C21_Witness ==
    /\ _cmake_proc_
    /\ Len(sent) >= 2
    /\ Len(_cmake_jobs_status_) >= _CMAKE_FIRST_USER_JOB_ + 2
    /\ _cmake_jobs_status_[_CMAKE_FIRST_USER_JOB_ + 1] = Val(0)
    /\ _cmake_jobs_status_[_CMAKE_FIRST_USER_JOB_ + 2] = Val(1)

\* C22: when a wait on the last of N enqueued jobs has returned, the worker having
\* initialised and every enqueued command being one that succeeds, it returned 0,
\* all N jobs are resolved with status 0 and get_number_of_jobs('completed') is N.
C22_SingleWaitResolvesAll ==
    (/\ frame.pc = "idle"
     /\ _cmake_proc_
     /\ fatal = ""
     /\ last.op = "wait"
     /\ last.kind = "ret"
     /\ issued # <<>>
     /\ last.id = Val(issued[Len(issued)])
     /\ \A j \in 1 .. Len(sent) : ExpectedCode(j) = 0)
    => /\ last.val = Val(0)
       /\ \A j \in 1 .. Len(sent) :
             _cmake_jobs_status_[j + _CMAKE_FIRST_USER_JOB_] = Val(0)
       /\ get_number_of_jobs("completed") = Len(sent)

\* C22 witness: three jobs enqueued, a wait on the third id returned 0 with nothing
\* left on the status stream
C22_Witness ==
    /\ frame.pc = "idle"
    /\ _cmake_proc_
    /\ last = Ret("wait", Val(2), Val(0))
    /\ Len(sent) = 3
    /\ get_number_of_jobs("completed") = 3
    /\ stdout = <<>>

\* C23: get_number_of_jobs('remaining') is the ledger length minus the completed
\* count, floored at zero, and so it is zero only when no submitted job is pending.
C23_RemainingIsLenMinusCompleted ==
    /\ get_number_of_jobs("remaining")
          = Max0(Len(_cmake_jobs_status_) - _cmake_jobs_completed_)
    /\ get_number_of_jobs("remaining") = 0
       => \A s \in _CMAKE_FIRST_USER_JOB_ + 1 .. Len(_cmake_jobs_status_) :
             _cmake_jobs_status_[s] # None

\* C24: no deadlock: the controller is never blocked in wait reading an empty
\* status stream while the worker is blocked reading an empty, open command stream.
C24_NoDeadlock ==
    ~(/\ frame.pc = "wait_read"
      /\ stdout = <<>>
      /\ wpc = "ready"
      /\ stdin = <<>>
      /\ ~stdin_closed)

\* a step in which the worker finishes a job that returns nonzero
FailingJobEnds == worker_run /\ CMakeExitCode(next_args) # 0

NResolved ==
    Cardinality({ s \in 1 .. Len(_cmake_jobs_status_) : _cmake_jobs_status_[s] # None })

\* the values of all status lines the worker of the current handle has written:
\* those the controller has read into the ledger, then those still on the stream
Emitted ==
    [k \in 1 .. NResolved |-> _cmake_jobs_status_[k][1]]
    \o [k \in 1 .. Len(stdout) |-> IntOf(Strip(stdout[k]))]

\* C26: the worker writes nothing before parsing ends; a parse failure gives the
\* single line -1 and the end of the process; a parse success gives 0, and setup
\* then gives a second line, 0 or else -1 with termination; the worker is reading
\* or executing commands only after the lines 0, 0.
C26_StartupLines ==
    _cmake_proc_ =>
       /\ wpc = "parse" => Emitted = <<>>
       /\ fatal = "parse" => (Emitted = <<-1>> /\ wpc = "exited")
       /\ wpc = "init" => Emitted = <<0>>
       /\ fatal = "setup" => (Emitted = <<0, -1>> /\ wpc \in {"terminating", "exited"})
       /\ (wpc \in {"ready", "exec"} \/ executed # <<>>)
          => (Len(Emitted) >= 2 /\ Emitted[1] = 0 /\ Emitted[2] = 0)

\* C26 witness: setup failed after a successful parse, both lines were read into
\* the ledger and the worker has ended
C26_Witness ==
    /\ _cmake_proc_
    /\ fatal = "setup"
    /\ wpc = "exited"
    /\ _cmake_jobs_completed_ = 2
    /\ Emitted = <<0, -1>>
    /\ stdout = <<>>

\* the worker, Ready, reads end of input or the quit sentinel
ReadsEndOrQuit ==
    /\ worker_readline
    /\ stdin = <<>> \/ Head(stdin) = <<"--quit", "\n">>

\* C27: on end of input or the quit sentinel the Ready worker ends its loop,
\* executes nothing and writes nothing; any other line is executed; and while the
\* worker is terminating or has exited, no line is added to the status stream.
C27_TerminationSilent ==
    /\ [][ ReadsEndOrQuit
           => /\ wpc' = "terminating"
              /\ stdout' = stdout
              /\ executed' = executed
              /\ next_args' = next_args ]_vars
    /\ [][ (worker_readline /\ ~ReadsEndOrQuit) => wpc' = "exec" ]_vars
    /\ [][ (wpc \in {"terminating", "exited"} /\ ~SpawnStep)
           => Len(stdout') <= Len(stdout) ]_vars

\* C27 witness: stop wrote the quit sentinel behind two commands; the worker ran
\* both, read the sentinel and is ending, with exactly their two status lines out
C27_Witness ==
    /\ frame.pc = "stop_join"
    /\ wpc = "terminating"
    /\ ~stdin_closed
    /\ stdin = <<>>
    /\ fatal = ""
    /\ executed = <<0, 0>>
    /\ Len(sent) = 2
    /\ Len(Emitted) = _CMAKE_FIRST_USER_JOB_ + 2

\* C28: wait(id) on a slot that holds an integer status returns that status at
\* once: it reads nothing from the status stream and leaves the completed count
\* and the ledger unchanged.
C28_WaitResolvedNoRead ==
    [][ \A arg \in WaitIds :
          (/\ wait(arg)
           /\ arg # None
           /\ arg[1] + _CMAKE_FIRST_USER_JOB_ \in 0 .. Len(_cmake_jobs_status_) - 1
           /\ _cmake_jobs_status_[arg[1] + _CMAKE_FIRST_USER_JOB_ + 1] # None)
          => /\ frame'.pc = "idle"
             /\ last' = Ret("wait", arg,
                            _cmake_jobs_status_[arg[1] + _CMAKE_FIRST_USER_JOB_ + 1])
             /\ UNCHANGED <<stdout, _cmake_jobs_completed_, _cmake_jobs_status_>> ]_vars

\* C28 witness: a wait on a slot below the last resolved one has returned its
\* status while the worker runs and an unread status line is on the stream
C28_Witness ==
    /\ frame.pc = "idle"
    /\ is_running
    /\ last.op = "wait"
    /\ last.kind = "ret"
    /\ last.id # None
    /\ last.id[1] >= 0
    /\ _cmake_jobs_completed_ > last.id[1] + _CMAKE_FIRST_USER_JOB_ + 1
    /\ last.val = _cmake_jobs_status_[last.id[1] + _CMAKE_FIRST_USER_JOB_ + 1]
    /\ stdout # <<>>

\* C29: enqueue never consumes a status line and leaves the completed count and
\* every existing slot unchanged; it either raises and changes nothing, or appends
\* one pending slot and writes one command line.  (The accessors are state
\* functions of the ledger, the count and the handle.)
C29_EnqueueReadsNothing ==
    [][ (\E arg_str \in Commands : enqueue(arg_str))
        => /\ stdout' = stdout
           /\ _cmake_jobs_completed_' = _cmake_jobs_completed_
           /\ \/ /\ last'.kind = "raise"
                 /\ _cmake_jobs_status_' = _cmake_jobs_status_
                 /\ stdin' = stdin
              \/ /\ last'.kind = "ret"
                 /\ _cmake_jobs_status_' = Append(_cmake_jobs_status_, None)
                 /\ \E arg_str \in Commands : stdin' = Append(stdin, CommandLine(arg_str))
           /\ is_running' = is_running ]_vars

\* C29 witness: an enqueue returned while a status line was waiting unread and an
\* earlier slot was already resolved
C29_Witness ==
    /\ frame.pc = "idle"
    /\ last.op = "enqueue"
    /\ last.kind = "ret"
    /\ stdout # <<>>
    /\ _cmake_jobs_completed_ >= 1
    /\ _cmake_jobs_status_[Len(_cmake_jobs_status_)] = None

\* C30: wait(id) with an explicit id that denotes no ledger slot raises ValueError
\* at once, reading nothing and changing neither the completed count nor a status.
C30_WaitValidatesId ==
    [][ \A arg \in WaitIds :
          (/\ wait(arg)
           /\ arg # None
           /\ arg[1] + _CMAKE_FIRST_USER_JOB_ \notin 0 .. Len(_cmake_jobs_status_) - 1)
          => /\ frame'.pc = "idle"
             /\ last' = Raise("wait", arg, "ValueError")
             /\ UNCHANGED <<stdout, _cmake_jobs_completed_, _cmake_jobs_status_>> ]_vars

\* C31: get_job_status(id) returns the status of the slot of user job id when id
\* denotes a ledger slot, and raises ValueError for every other id, ids below the
\* first system slot included.
C31_GetJobStatusValidates ==
    \A k \in -3 .. MaxJobs :
        get_job_status(Val(k)) =
            IF k + _CMAKE_FIRST_USER_JOB_ \in 0 .. Len(_cmake_jobs_status_) - 1
            THEN Ret("get_job_status", Val(k),
                     _cmake_jobs_status_[k + _CMAKE_FIRST_USER_JOB_ + 1])
            ELSE Raise("get_job_status", Val(k), "ValueError")

\* C32: once a slot is resolved, get_last_job() is the user-visible id of the most
\* recently resolved slot, get_job_status of it is the status recorded last, and
\* it differs from get_current_job().
C32_GetLastJobIsLastResolved ==
    NResolved >= 1
    => /\ get_last_job = Val(NResolved - 1 - _CMAKE_FIRST_USER_JOB_)
       /\ get_job_status(get_last_job)
             = Ret("get_job_status", get_last_job, _cmake_jobs_status_[NResolved])
       /\ get_last_job # get_current_job

\* how wait(Val(k)) would answer if called in this state: at once with a value, at
\* once with an error, or by reading the status stream
WaitAnswer(k) ==
    LET id == k + _CMAKE_FIRST_USER_JOB_ IN
    IF ~is_running \/ id < _cmake_jobs_completed_
    THEN IF PyInRange(_cmake_jobs_status_, id)
         THEN [how |-> "return", val |-> PyGet(_cmake_jobs_status_, id)]
         ELSE [how |-> "raise", val |-> None]
    ELSE [how |-> "read", val |-> None]

\* a step of the worker process
WorkerStep ==
    \/ worker_parse
    \/ \E ok \in BOOLEAN : worker_init(ok)
    \/ worker_readline
    \/ worker_run
    \/ worker_exit
    \/ worker_sigterm

\* C33: scheduling independence: between two calls of the controller, a step of
\* the worker (its exit included) does not change how a wait on a submitted job
\* answers, so a wait called before the step and one called after it give the
\* same value and leave the same ledger.
C33_SchedulingIndependence ==
    [][ (frame.pc = "idle" /\ WorkerStep)
        => \A k \in 0 .. Len(issued) - 1 : WaitAnswer(k)' = WaitAnswer(k) ]_vars

\* C34: when the wait of manage_cmake.waitfor(job) has ended for a submitted job,
\* waitfor returns None exactly when the slot of the job and every slot before it
\* hold status 0, and otherwise (a failed user job, a fatal -1 on a system slot, a
\* job the exited worker never ran) it returns a failed job id.
C34_WaitforFaithful ==
    (/\ frame.pc = "idle"
     /\ last.op = "wait"
     /\ last.id # None
     /\ last.id[1] \in 0 .. Len(issued) - 1)
    => /\ waitfor(last).kind = "ret"
       /\ (waitfor(last).val = None)
          <=> \A s \in 1 .. LastSlot : _cmake_jobs_status_[s] = Val(0)

====
